---------------------------- MODULE Spec2Model ----------------------------
(***************************************************************************)
(* Model of girder/models/setting.py: the Setting model, a key/value store *)
(* of server-wide settings layered on a document collection.               *)
(*                                                                         *)
(* Values are tagged records.  Strings are sequences of one-character      *)
(* strings, so that lower(), upper(), strip(), split(), rstrip('/'),       *)
(* join() and int() are computed character by character.                   *)
(***************************************************************************)
EXTENDS Integers, Sequences, FiniteSets, TLC

VARIABLES docs, indices, nextId, connected, last, pc, lastSaver, clean, rt

vars == <<docs, indices, nextId, connected, last, pc, lastSaver, clean, rt>>

-----------------------------------------------------------------------------
(* Bounds of the model.                                                    *)

\* longest generated input string (characters)
MaxLen == 3
\* largest document identity the store hands out
MaxId == 3
\* most documents of a legacy collection before the index repair
MaxLegacyDocs == 3

-----------------------------------------------------------------------------
(* Python values.                                                          *)

Null == [t |-> "null"]
BoolV(b) == [t |-> "bool", b |-> b]
IntV(n) == [t |-> "int", n |-> n]
StrV(s) == [t |-> "str", s |-> s]
ListV(l) == [t |-> "list", l |-> l]
DictV(ks, o, g, u) == [t |-> "dict", keys |-> ks, open |-> o, groups |-> g, users |-> u]

IsStr(v) == v.t = "str"

\* bool(v): None, False, 0, '', [] and {} are false
Truthy(v) ==
    CASE v.t = "null" -> FALSE
      [] v.t = "bool" -> v.b
      [] v.t = "int" -> v.n # 0
      [] v.t = "str" -> v.s # <<>>
      [] v.t = "list" -> v.l # <<>>
      [] v.t = "dict" -> v.keys # {}

-----------------------------------------------------------------------------
(* Python string operations.                                               *)

UpperAlpha == <<"A","B","C","D","E","F","G","H","I","J","K","L","M",
                "N","O","P","Q","R","S","T","U","V","W","X","Y","Z">>
LowerAlpha == <<"a","b","c","d","e","f","g","h","i","j","k","l","m",
                "n","o","p","q","r","s","t","u","v","w","x","y","z">>

LowerChar(c) ==
    IF \E i \in DOMAIN UpperAlpha : UpperAlpha[i] = c
    THEN LowerAlpha[CHOOSE i \in DOMAIN UpperAlpha : UpperAlpha[i] = c]
    ELSE c

UpperChar(c) ==
    IF \E i \in DOMAIN LowerAlpha : LowerAlpha[i] = c
    THEN UpperAlpha[CHOOSE i \in DOMAIN LowerAlpha : LowerAlpha[i] = c]
    ELSE c

\* str.lower()
Lower(s) == [i \in DOMAIN s |-> LowerChar(s[i])]
\* str.upper()
Upper(s) == [i \in DOMAIN s |-> UpperChar(s[i])]

\* str.replace(',', ' ')
ReplaceComma(s) == [i \in DOMAIN s |-> IF s[i] = "," THEN " " ELSE s[i]]

IsSpace(c) == c = " "

RECURSIVE LStrip(_)
LStrip(s) == IF s # <<>> /\ IsSpace(Head(s)) THEN LStrip(Tail(s)) ELSE s

RECURSIVE RStrip(_)
RStrip(s) ==
    IF s # <<>> /\ IsSpace(s[Len(s)]) THEN RStrip(SubSeq(s, 1, Len(s) - 1)) ELSE s

\* str.strip()
Strip(s) == LStrip(RStrip(s))

\* str.rstrip('/')
RECURSIVE RStripSlash(_)
RStripSlash(s) ==
    IF s # <<>> /\ s[Len(s)] = "/" THEN RStripSlash(SubSeq(s, 1, Len(s) - 1)) ELSE s

\* str.split(): the maximal runs of non-whitespace, in order
RECURSIVE SplitAcc(_, _, _)
SplitAcc(s, cur, acc) ==
    IF s = <<>>
    THEN IF cur = <<>> THEN acc ELSE Append(acc, cur)
    ELSE IF IsSpace(Head(s))
         THEN SplitAcc(Tail(s), <<>>, IF cur = <<>> THEN acc ELSE Append(acc, cur))
         ELSE SplitAcc(Tail(s), Append(cur, Head(s)), acc)

Split(s) == SplitAcc(s, <<>>, <<>>)

\* list(OrderedDict.fromkeys(xs)): duplicates removed, first occurrences kept
RECURSIVE DedupAcc(_, _)
DedupAcc(xs, acc) ==
    IF xs = <<>> THEN acc
    ELSE IF \E i \in DOMAIN acc : acc[i] = Head(xs)
         THEN DedupAcc(Tail(xs), acc)
         ELSE DedupAcc(Tail(xs), Append(acc, Head(xs)))

Dedup(xs) == DedupAcc(xs, <<>>)

\* ', '.join(xs)
RECURSIVE Join(_)
Join(xs) ==
    IF xs = <<>> THEN <<>>
    ELSE IF Len(xs) = 1 THEN xs[1]
         ELSE xs[1] \o <<",", " ">> \o Join(Tail(xs))

Digits == <<"0","1","2","3","4","5","6","7","8","9">>
IsDigit(c) == \E i \in DOMAIN Digits : Digits[i] = c
DigitVal(c) == (CHOOSE i \in DOMAIN Digits : Digits[i] = c) - 1

RECURSIVE DigitsVal(_, _)
DigitsVal(s, acc) ==
    IF s = <<>> THEN acc ELSE DigitsVal(Tail(s), 10 * acc + DigitVal(Head(s)))

\* int(x): [exc, n].  A string is stripped, may carry one sign and must then be
\* all digits, else ValueError; None, a list or a dict is a TypeError.
PyInt(v) ==
    CASE v.t = "int" -> [exc |-> "none", n |-> v.n]
      [] v.t = "bool" -> [exc |-> "none", n |-> IF v.b THEN 1 ELSE 0]
      [] v.t = "str" ->
            LET body == Strip(v.s)
                signed == body # <<>> /\ Head(body) \in {"-", "+"}
                digs == IF signed THEN Tail(body) ELSE body
            IN  IF digs # <<>> /\ \A i \in DOMAIN digs : IsDigit(digs[i])
                THEN [exc |-> "none",
                      n |-> IF signed /\ Head(body) = "-"
                            THEN 0 - DigitsVal(digs, 0) ELSE DigitsVal(digs, 0)]
                ELSE [exc |-> "ValueError", n |-> 0]
      [] OTHER -> [exc |-> "TypeError", n |-> 0]

-----------------------------------------------------------------------------
(* String literals of the source.                                          *)

S_never == <<"n","e","v","e","r">>
S_noadmin == <<"n","o","a","d","m","i","n">>
S_nomod == <<"n","o","m","o","d">>
S_yesadmin == <<"y","e","s","a","d","m","i","n">>
S_yesmod == <<"y","e","s","m","o","d">>
S_open == <<"o","p","e","n">>
S_closed == <<"c","l","o","s","e","d">>
S_approve == <<"a","p","p","r","o","v","e">>
S_required == <<"r","e","q","u","i","r","e","d">>
S_optional == <<"o","p","t","i","o","n","a","l">>
S_disabled == <<"d","i","s","a","b","l","e","d">>
S_none == <<"n","o","n","e">>
S_starttls == <<"s","t","a","r","t","t","l","s">>
S_ssl == <<"s","s","l">>
S_public_private == <<"p","u","b","l","i","c","_","p","r","i","v","a","t","e">>
\* '__default__', the default of get's parameter
S_sentinel == <<"_","_","d","e","f","a","u","l","t","_","_">>

-----------------------------------------------------------------------------
(* Outcome of a validator: the exception it raises ("none" when it         *)
(* returns), the field of a ValidationException ("none" when the           *)
(* constructor is given no field) and the value it leaves in the document. *)

Ok(v) == [exc |-> "none", field |-> "none", value |-> v]
Raise(e, f) == [exc |-> e, field |-> f, value |-> Null]

-----------------------------------------------------------------------------
(* Collaborators of the validators.                                        *)

\* The installed plugins and what each depends on.
Plugins == {"a", "b"}
PluginDeps == [p \in Plugins |-> IF p = "b" THEN {"a"} ELSE {}]
\* every plugin after the plugins it depends on
PluginOrder == <<"a", "b">>

RECURSIVE PluginClosure(_)
PluginClosure(ps) ==
    LET more == ps \cup UNION {PluginDeps[p] : p \in ps}
    IN  IF more = ps THEN ps ELSE PluginClosure(more)

\* plugin_utilities.getToposortedPlugins: the names that are plugins, with all
\* their transitive dependencies, in dependency order
getToposortedPlugins(l) ==
    LET asked == {l[i] : i \in DOMAIN l} \cap Plugins
    IN  SelectSeq(PluginOrder, LAMBDA p : p \in PluginClosure(asked))

\* The group and user documents that exist, by ObjectId.
Entities == {"o1"}
\* ObjectId(x): the ObjectId of an id given as a string or as an ObjectId
ObjectId(x) ==
    CASE x = "s1" -> "o1"
      [] x = "s9" -> "o9"
      [] OTHER -> x
\* ModelImporter.model(...).load(id, force=True, exc=True) finds the document
LoadFound(x) == ObjectId(x) \in Entities

-----------------------------------------------------------------------------
(* The validators, one per decorated static method.  Each takes            *)
(* doc['value'] and gives the outcome.                                     *)

validateCorePluginsEnabled(v) ==
    IF v.t # "list"
    THEN Raise("ValidationException", "value")
    ELSE Ok(ListV(getToposortedPlugins(v.l)))

validateCoreAddToGroupPolicy(v) ==
    IF ~IsStr(v)
    THEN Raise("AttributeError", "none")
    ELSE IF Lower(v.s) \notin {S_never, S_noadmin, S_nomod, S_yesadmin, S_yesmod, <<>>}
         THEN Raise("ValidationException", "value")
         ELSE Ok(StrV(Lower(v.s)))

validateCoreCollectionCreatePolicy(v) ==
    IF v.t # "dict"
    THEN Raise("ValidationException", "none")
    ELSE IF \E i \in DOMAIN v.groups : ~LoadFound(v.groups[i])
         THEN Raise("ValidationException", "id")
         ELSE IF \E i \in DOMAIN v.users : ~LoadFound(v.users[i])
              THEN Raise("ValidationException", "id")
              ELSE Ok(DictV(v.keys \cup {"open"},
                            IF "open" \in v.keys THEN v.open ELSE FALSE,
                            [i \in DOMAIN v.groups |-> ObjectId(v.groups[i])],
                            [i \in DOMAIN v.users |-> ObjectId(v.users[i])]))

validateCoreCookieLifetime(v) ==
    LET r == PyInt(v)
    IN  IF r.exc = "TypeError"
        THEN Raise("TypeError", "none")
        ELSE IF r.exc = "none" /\ r.n > 0
             THEN Ok(IntV(r.n))
             ELSE Raise("ValidationException", "value")

validateCoreCorsAllowMethods(v) ==
    IF IsStr(v)
    THEN Ok(StrV(Join(Dedup(Split(Upper(Strip(ReplaceComma(v.s))))))))
    ELSE Raise("ValidationException", "value")

validateCoreCorsAllowHeaders(v) ==
    IF IsStr(v)
    THEN Ok(StrV(Join(Dedup(Split(Strip(ReplaceComma(v.s)))))))
    ELSE Raise("ValidationException", "value")

validateCoreCorsAllowOrigin(v) ==
    IF IsStr(v)
    THEN LET origins == Split(Strip(ReplaceComma(v.s)))
             trimmed == [i \in DOMAIN origins |-> RStripSlash(origins[i])]
         IN  Ok(StrV(Join(Dedup(trimmed))))
    ELSE Raise("ValidationException", "value")

validateCoreEmailFromAddress(v) ==
    IF ~Truthy(v) THEN Raise("ValidationException", "value") ELSE Ok(v)

validateCoreEmailHost(v) ==
    IF IsStr(v) THEN Ok(StrV(Strip(v.s))) ELSE Raise("ValidationException", "value")

validateCoreRegistrationPolicy(v) ==
    IF ~IsStr(v)
    THEN Raise("AttributeError", "none")
    ELSE IF Lower(v.s) \notin {S_open, S_closed, S_approve}
         THEN Raise("ValidationException", "value")
         ELSE Ok(StrV(Lower(v.s)))

validateCoreEmailVerification(v) ==
    IF ~IsStr(v)
    THEN Raise("AttributeError", "none")
    ELSE IF Lower(v.s) \notin {S_required, S_optional, S_disabled}
         THEN Raise("ValidationException", "value")
         ELSE Ok(StrV(Lower(v.s)))

validateCoreSmtpHost(v) ==
    IF ~Truthy(v) THEN Raise("ValidationException", "value") ELSE Ok(v)

validateCoreSmtpPort(v) ==
    LET r == PyInt(v)
    IN  IF r.exc = "TypeError"
        THEN Raise("TypeError", "none")
        ELSE IF r.exc = "none" /\ r.n > 0
             THEN Ok(IntV(r.n))
             ELSE Raise("ValidationException", "value")

validateCoreSmtpEncryption(v) ==
    IF ~(v \in {StrV(S_none), StrV(S_starttls), StrV(S_ssl)})
    THEN Raise("ValidationException", "value")
    ELSE Ok(v)

validateCoreSmtpUsername(v) == Ok(v)

validateCoreSmtpPassword(v) == Ok(v)

validateCoreUploadMinimumChunkSize(v) ==
    LET r == PyInt(v)
    IN  IF r.exc = "TypeError"
        THEN Raise("TypeError", "none")
        ELSE IF r.exc = "none" /\ r.n >= 0
             THEN Ok(IntV(r.n))
             ELSE Raise("ValidationException", "value")

validateCoreUserDefaultFolders(v) ==
    IF v \notin {StrV(S_public_private), StrV(S_none)}
    THEN Raise("ValidationException", "value")
    ELSE Ok(v)

-----------------------------------------------------------------------------
(* The registry of validators and defaults.                                *)

\* SettingKey members that a decorator of this file registers a validator for
RegisteredKeys ==
    {"PLUGINS_ENABLED", "ADD_TO_GROUP_POLICY", "COLLECTION_CREATE_POLICY",
     "COOKIE_LIFETIME", "CORS_ALLOW_METHODS", "CORS_ALLOW_HEADERS",
     "CORS_ALLOW_ORIGIN", "EMAIL_FROM_ADDRESS", "EMAIL_HOST",
     "REGISTRATION_POLICY", "EMAIL_VERIFICATION", "SMTP_HOST", "SMTP_PORT",
     "SMTP_ENCRYPTION", "SMTP_USERNAME", "SMTP_PASSWORD",
     "UPLOAD_MINIMUM_CHUNK_SIZE", "USER_DEFAULT_FOLDERS"}

\* a key nothing registers
UnknownKey == "unknown.key"

\* setting_utilities.getValidator(key) is not None
getValidator(key) == key \in RegisteredKeys

\* validator(doc), for the validator registered for key
RunValidator(key, v) ==
    CASE key = "PLUGINS_ENABLED" -> validateCorePluginsEnabled(v)
      [] key = "ADD_TO_GROUP_POLICY" -> validateCoreAddToGroupPolicy(v)
      [] key = "COLLECTION_CREATE_POLICY" -> validateCoreCollectionCreatePolicy(v)
      [] key = "COOKIE_LIFETIME" -> validateCoreCookieLifetime(v)
      [] key = "CORS_ALLOW_METHODS" -> validateCoreCorsAllowMethods(v)
      [] key = "CORS_ALLOW_HEADERS" -> validateCoreCorsAllowHeaders(v)
      [] key = "CORS_ALLOW_ORIGIN" -> validateCoreCorsAllowOrigin(v)
      [] key = "EMAIL_FROM_ADDRESS" -> validateCoreEmailFromAddress(v)
      [] key = "EMAIL_HOST" -> validateCoreEmailHost(v)
      [] key = "REGISTRATION_POLICY" -> validateCoreRegistrationPolicy(v)
      [] key = "EMAIL_VERIFICATION" -> validateCoreEmailVerification(v)
      [] key = "SMTP_HOST" -> validateCoreSmtpHost(v)
      [] key = "SMTP_PORT" -> validateCoreSmtpPort(v)
      [] key = "SMTP_ENCRYPTION" -> validateCoreSmtpEncryption(v)
      [] key = "SMTP_USERNAME" -> validateCoreSmtpUsername(v)
      [] key = "SMTP_PASSWORD" -> validateCoreSmtpPassword(v)
      [] key = "UPLOAD_MINIMUM_CHUNK_SIZE" -> validateCoreUploadMinimumChunkSize(v)
      [] key = "USER_DEFAULT_FOLDERS" -> validateCoreUserDefaultFolders(v)

\* Setting.validate(doc): the outcome for a document with this key and value
validateAcceptsAnyKey(key, v) ==
    IF getValidator(key) THEN RunValidator(key, v) ELSE Ok(v)
validate(key, v) ==
    IF getValidator(key)
    THEN RunValidator(key, v)
    ELSE Raise("ValidationException", "key")

\* SettingDefault.defaults: the static table of defaults
StaticDefaultKeys == {"COOKIE_LIFETIME", "REGISTRATION_POLICY"}
StaticDefault(key) ==
    CASE key = "COOKIE_LIFETIME" -> IntV(180)
      [] key = "REGISTRATION_POLICY" -> StrV(S_open)

\* '%d' % n, for n >= 0
RECURSIVE PyDecimal(_)
PyDecimal(n) ==
    IF n < 10 THEN <<Digits[n + 1]>>
    ELSE PyDecimal(n \div 10) \o <<Digits[(n % 10) + 1]>>

\* The ambient cherrypy request: none, or its scheme, local name and port.
NoRequest == [present |-> FALSE, scheme |-> <<>>, name |-> <<>>, port |-> 0]
Requests ==
    {NoRequest,
     [present |-> TRUE, scheme |-> <<"h">>, name |-> <<>>, port |-> 80],
     [present |-> TRUE, scheme |-> <<"h">>, name |-> <<"x">>, port |-> 80],
     [present |-> TRUE, scheme |-> <<"h">>, name |-> <<"x">>, port |-> 81]}

\* defaultCoreEmailHost(): None when it falls off the end
defaultCoreEmailHost(req) ==
    IF req.present /\ req.name # <<>>
    THEN StrV(req.scheme \o <<":", "/", "/">> \o req.name
              \o (IF req.port # 80 THEN <<":">> \o PyDecimal(req.port) ELSE <<>>))
    ELSE Null

\* setting_utilities.getDefaultFunction(key) is callable
getDefaultFunction(key) == key = "EMAIL_HOST"

\* Setting.getDefault(key)
getDefault(key, req) ==
    IF key \in StaticDefaultKeys
    THEN StaticDefault(key)
    ELSE IF getDefaultFunction(key)
         THEN defaultCoreEmailHost(req)
         ELSE Null

-----------------------------------------------------------------------------
(* The collection: documents [id, key, value] and its indices.             *)

\* the id of a document that has no _id yet
NoId == 0

IdIndex == [name |-> "_id_", field |-> "_id", unique |-> TRUE]
\* the index older installs asked for: ensureIndices(['key'])
OldKeyIndex == [name |-> "key_1", field |-> "key", unique |-> FALSE]
\* another non-unique index whose first field is key
OldCompoundIndex == [name |-> "key_1_value_1", field |-> "key", unique |-> FALSE]

\* the index reconnect creates: create_index('key', unique=True)
NonUniqueKeyIndex == [name |-> "key_1", field |-> "key", unique |-> FALSE]
CreatedKeyIndex == [name |-> "key_1", field |-> "key", unique |-> TRUE]

\* the database enforces uniqueness of key
KeyIsUnique(idx) == \E i \in idx : i.field = "key" /\ i.unique

KeysOf(c) == {d.key : d \in c}
IdsOf(c) == {d.id : d \in c}
Matching(c, k) == {d \in c : d.key = k}
MinId(ids) == CHOOSE i \in ids : \A j \in ids : i <= j
MaxOfIds(ids) == CHOOSE i \in ids : \A j \in ids : i >= j

\* findOne({'key': key}): no document, or the first match (documents are
\* stored in the order of their ids)
findOne(c, k) ==
    IF Matching(c, k) = {} THEN {}
    ELSE {CHOOSE d \in Matching(c, k) : d.id = MinId(IdsOf(Matching(c, k)))}

\* Model.save: validate, then insert (no _id) or replace by _id, upserting.
\* [docs, nextId, exc, field, value]; value is the saved document's value.
Persist(c, idx, nid, doc) ==
    IF KeyIsUnique(idx) /\ \E e \in c : e.key = doc.key /\ e.id # doc.id
    THEN [docs |-> c, nextId |-> nid, exc |-> "DuplicateKeyError",
          field |-> "none", value |-> Null]
    ELSE IF doc.id = NoId
         THEN [docs |-> c \cup {[doc EXCEPT !.id = nid]}, nextId |-> nid + 1,
               exc |-> "none", field |-> "none", value |-> doc.value]
         ELSE [docs |-> {e \in c : e.id # doc.id} \cup {doc}, nextId |-> nid,
               exc |-> "none", field |-> "none", value |-> doc.value]

save(c, idx, nid, doc) ==
    LET r == validate(doc.key, doc.value)
    IN  IF r.exc # "none"
        THEN [docs |-> c, nextId |-> nid, exc |-> r.exc, field |-> r.field,
              value |-> Null]
        ELSE Persist(c, idx, nid, [doc EXCEPT !.value = r.value])

\* Setting.set, lines 127-134: the document handed to save
SettingNeverOverwritten(found, k, v) ==
    IF found = {}
    THEN [id |-> NoId, key |-> k, value |-> v]
    ELSE CHOOSE d \in found : TRUE
SettingAlwaysNew(found, k, v) == [id |-> NoId, key |-> k, value |-> v]
SettingToSave(found, k, v) ==
    IF found = {}
    THEN [id |-> NoId, key |-> k, value |-> v]
    ELSE [(CHOOSE d \in found : TRUE) EXCEPT !.value = v]

\* Setting.set(key, value)
set(c, idx, nid, k, v) == save(c, idx, nid, SettingToSave(findOne(c, k), k, v))

\* Setting.get(key, default); isSentinel is the outcome of
\* default is '__default__'
getIgnoresCallerDefault(c, k, dflt, isSentinel, req) ==
    IF findOne(c, k) = {}
    THEN getDefault(k, req)
    ELSE (CHOOSE d \in findOne(c, k) : TRUE).value
get(c, k, dflt, isSentinel, req) ==
    IF findOne(c, k) = {}
    THEN IF isSentinel THEN getDefault(k, req) ELSE dflt
    ELSE (CHOOSE d \in findOne(c, k) : TRUE).value

\* Setting.unset(key): every match is removed
unset(c, k) == c \ Matching(c, k)

\* reconnect, line 80: sorted(duplicate['ids'])[1:]
AllButHighest(ids) == ids \ {MaxOfIds(ids)}
IdsToDelete(ids) == ids \ {MinId(ids)}

\* reconnect, lines 68-81: the collection with the duplicates removed
Deduplicated(c) ==
    {d \in c :
        LET ids == IdsOf(Matching(c, d.key))
        IN  ~(Cardinality(ids) > 1 /\ d.id \in IdsToDelete(ids))}

\* Setting.reconnect(): [docs, indices, ok]; create_index fails when two
\* documents still share a key
reconnect(c, idx) ==
    IF \E i \in idx : i.field = "key" /\ i.unique
    THEN [docs |-> c, indices |-> idx, ok |-> TRUE]
    ELSE LET kept == {i \in idx : i.field # "key"}
             left == Deduplicated(c)
             created == CreatedKeyIndex
         IN  IF created.unique /\ \E d, e \in left : d.key = e.key /\ d.id # e.id
             THEN [docs |-> left, indices |-> kept, ok |-> FALSE]
             ELSE [docs |-> left, indices |-> kept \cup {created}, ok |-> TRUE]

-----------------------------------------------------------------------------
(* Inputs.                                                                 *)

\* keys the store is exercised with: one with a static default, one with a
\* default function, one with neither, one that is not registered
StoreKeys == {"COOKIE_LIFETIME", "EMAIL_HOST", "CORS_ALLOW_METHODS", UnknownKey}

\* values handed to set
StoreValues == {Null, IntV(0), StrV(<<"3">>), StrV(<<"g", ",", "G">>)}

\* values an install holds for a key: values its validator has let through
StoredValues(k) ==
    CASE k = "COOKIE_LIFETIME" -> {IntV(3), IntV(5)}
      [] k = "EMAIL_HOST" -> {StrV(<<"g">>), StrV(<<"G">>)}
      [] k = "CORS_ALLOW_METHODS" -> {StrV(<<"G">>), StrV(<<"G", ",", " ", "P">>)}

StoredPairs ==
    UNION {{<<k, v>> : v \in StoredValues(k)} : k \in StoreKeys \ {UnknownKey}}

\* defaults a caller hands to get
CallerDefaults == {IntV(7), StrV(S_sentinel)}

\* a collection of n documents with the ids 1..n
LegacyCollections ==
    UNION {
        {{[id |-> i, key |-> f[i][1], value |-> f[i][2]] : i \in 1..n} :
            f \in [1..n -> StoredPairs]} :
        n \in 0..MaxLegacyDocs}

HasDuplicates(c) == \E d, e \in c : d.key = e.key /\ d.id # e.id

\* the indices of a collection before reconnect runs: none (the collection
\* does not exist), those of an older install, or the unique index
LegacyIndices(c) ==
    (IF c = {} THEN {{}} ELSE {})
    \cup {{IdIndex} \cup s : s \in SUBSET {OldKeyIndex, OldCompoundIndex}}
    \cup (IF HasDuplicates(c) THEN {} ELSE {{IdIndex, CreatedKeyIndex}})

-----------------------------------------------------------------------------
(* History of the sequential client: the operation that completed last.    *)
(* A get also records whether it directly follows a successful set or an   *)
(* unset of the same key, and the value that set returned.                 *)

NoOp ==
    [op |-> "none", key |-> "", arg |-> Null, supplied |-> FALSE, sentinel |-> FALSE,
     exc |-> "none", field |-> "none", result |-> Null, removed |-> 0,
     follows |-> "other", written |-> Null, stored |-> FALSE, req |-> NoRequest]

Follows(l, k) ==
    IF l.op = "set" /\ l.exc = "none" /\ l.key = k THEN "set"
    ELSE IF l.op = "unset" /\ l.key = k THEN "unset"
    ELSE "other"

IdleClients == [p \in {} |-> 0]
NoRoundTrip == [phase |-> "off"]

-----------------------------------------------------------------------------
(* The operations, each run to completion by one caller.                   *)

Reconnect ==
    LET r == reconnect(docs, indices)
    IN  /\ docs' = r.docs
        /\ indices' = r.indices
        /\ connected' = r.ok
        /\ last' = [NoOp EXCEPT !.op = "reconnect",
                                !.exc = IF r.ok THEN "none" ELSE "OperationFailure",
                                !.removed = Cardinality(docs) - Cardinality(r.docs)]
        /\ UNCHANGED <<nextId, pc, lastSaver, clean, rt>>

Set(k, v) ==
    LET r == set(docs, indices, nextId, k, v)
    IN  /\ connected
        /\ r.nextId <= MaxId + 1
        /\ docs' = r.docs
        /\ nextId' = r.nextId
        /\ last' = [NoOp EXCEPT !.op = "set", !.key = k, !.arg = v,
                                !.exc = r.exc, !.field = r.field,
                                !.result = r.value,
                                !.stored = (Matching(docs, k) # {})]
        /\ UNCHANGED <<indices, connected, pc, lastSaver, clean, rt>>

\* get(key) leaves default at '__default__'; for a caller's own string
\* '__default__' the identity test has either outcome.  The request only
\* matters to the key whose default function reads it.
Get(k, supplied, dflt, isSentinel, req) ==
    /\ connected
    /\ ~supplied => dflt = StrV(S_sentinel) /\ isSentinel
    /\ isSentinel => dflt = StrV(S_sentinel)
    /\ ~getDefaultFunction(k) => req = NoRequest
    /\ last' = [NoOp EXCEPT !.op = "get", !.key = k, !.arg = dflt,
                            !.supplied = supplied, !.sentinel = isSentinel,
                            !.result = get(docs, k, dflt, isSentinel, req),
                            !.follows = Follows(last, k),
                            !.written = IF Follows(last, k) = "set"
                                        THEN last.result ELSE Null,
                            !.stored = (Matching(docs, k) # {}),
                            !.req = req]
    /\ UNCHANGED <<docs, indices, nextId, connected, pc, lastSaver, clean, rt>>

Unset(k) ==
    /\ connected
    /\ docs' = unset(docs, k)
    /\ last' = [NoOp EXCEPT !.op = "unset", !.key = k,
                            !.removed = Cardinality(docs) - Cardinality(unset(docs, k)),
                            !.stored = (Matching(docs, k) # {})]
    /\ UNCHANGED <<indices, nextId, connected, pc, lastSaver, clean, rt>>

-----------------------------------------------------------------------------
(* The sequential store after construction: reconnect has run, so the      *)
(* unique index exists and no two documents share a key.                   *)

Init ==
    /\ docs \in {c \in LegacyCollections : ~HasDuplicates(c)}
    /\ indices = {IdIndex, CreatedKeyIndex}
    /\ nextId = Cardinality(docs) + 1
    /\ connected = TRUE
    /\ last = NoOp
    /\ pc = IdleClients
    /\ lastSaver = 0
    /\ clean = IdleClients
    /\ rt = NoRoundTrip

Next ==
    \/ Reconnect
    \/ \E k \in StoreKeys, v \in StoreValues : Set(k, v)
    \/ \E k \in StoreKeys, supplied \in BOOLEAN, dflt \in CallerDefaults,
          isSentinel \in BOOLEAN, req \in Requests :
            Get(k, supplied, dflt, isSentinel, req)
    \/ \E k \in StoreKeys : Unset(k)

Spec == Init /\ [][Next]_vars

-----------------------------------------------------------------------------
(* Construction against the collection of an older install: reconnect      *)
(* repairs the index, and may run again.                                   *)

RepairInit ==
    /\ docs \in LegacyCollections
    /\ indices \in LegacyIndices(docs)
    /\ nextId = Cardinality(docs) + 1
    /\ connected = FALSE
    /\ last = NoOp
    /\ pc = IdleClients
    /\ lastSaver = 0
    /\ clean = IdleClients
    /\ rt = NoRoundTrip

RepairNext == Reconnect

SpecRepair == RepairInit /\ [][RepairNext]_vars

-----------------------------------------------------------------------------
(* Concurrent callers.  A set call is three steps (findOne, validate, the  *)
(* write of save) and an unset call is a find and one remove per match;    *)
(* the steps of different callers interleave freely.                       *)

Procs == {1, 2}

\* the key the callers contend for, and the values they set it to
ConcKeys == {"CORS_ALLOW_METHODS"}
ConcValues == {StrV(<<"g">>), StrV(<<"p">>), Null}

\* collections of an older install, of at most two documents
ConcCollections ==
    UNION {
        {{[id |-> i, key |-> f[i], value |-> StrV(<<"G">>)] : i \in 1..n} :
            f \in [1..n -> ConcKeys \cup {"EMAIL_HOST"}]} :
        n \in 0..2}

NoSetting == [id |-> NoId, key |-> "", value |-> Null]
Idle ==
    [step |-> "idle", op |-> "none", key |-> "", value |-> Null,
     setting |-> NoSetting, matches |-> {}, exc |-> "none", found |-> FALSE,
     raced |-> FALSE]

ConcInit ==
    /\ docs \in ConcCollections
    /\ indices \in {{IdIndex}, {IdIndex, OldKeyIndex}}
    /\ nextId = Cardinality(docs) + 1
    /\ connected = FALSE
    /\ last = NoOp
    /\ pc = [p \in Procs |-> Idle]
    /\ lastSaver = 0
    /\ clean = [p \in Procs |-> FALSE]
    /\ rt = NoRoundTrip

\* construction: reconnect runs before any caller is served
ConcReconnect ==
    /\ ~connected
    /\ Reconnect

CallSet(p, k, v) ==
    /\ connected
    /\ pc[p].step \in {"idle", "done"}
    /\ pc' = [pc EXCEPT ![p] = [Idle EXCEPT !.step = "find", !.op = "set",
                                            !.key = k, !.value = v]]
    /\ UNCHANGED <<docs, indices, nextId, connected, last, lastSaver, clean, rt>>

\* lines 127-134
SetFind(p) ==
    /\ pc[p].step = "find"
    /\ pc' = [pc EXCEPT ![p].step = "validate",
                        ![p].found = (findOne(docs, pc[p].key) # {}),
                        ![p].raced = (\E q \in Procs \ {p} :
                                        /\ pc[q].op = "set"
                                        /\ pc[q].key = pc[p].key
                                        /\ pc[q].step \in {"validate", "save"}),
                        ![p].setting =
                            SettingToSave(findOne(docs, pc[p].key), pc[p].key, pc[p].value)]
    /\ clean' = [clean EXCEPT ![p] = TRUE]
    /\ UNCHANGED <<docs, indices, nextId, connected, last, lastSaver, rt>>

\* save, first half: validate(doc)
SetValidate(p) ==
    /\ pc[p].step = "validate"
    /\ LET r == validate(pc[p].setting.key, pc[p].setting.value)
       IN  pc' = IF r.exc # "none"
                 THEN [pc EXCEPT ![p] = [Idle EXCEPT !.step = "done", !.op = "set",
                                                     !.exc = r.exc]]
                 ELSE [pc EXCEPT ![p].step = "save", ![p].value = r.value,
                                 ![p].setting.value = r.value]
    /\ UNCHANGED <<docs, indices, nextId, connected, last, lastSaver, clean, rt>>

\* save, second half: the write
SetSave(p) ==
    /\ pc[p].step = "save"
    /\ LET r == Persist(docs, indices, nextId, pc[p].setting)
       IN  /\ r.nextId <= MaxId + 1
           /\ docs' = r.docs
           /\ nextId' = r.nextId
           /\ pc' = [pc EXCEPT ![p].step = "done", ![p].exc = r.exc,
                               ![p].setting = NoSetting]
           /\ lastSaver' = IF r.exc = "none" THEN p ELSE lastSaver
    /\ UNCHANGED <<indices, connected, last, clean, rt>>

CallUnset(p, k) ==
    /\ connected
    /\ pc[p].step \in {"idle", "done"}
    /\ pc' = [pc EXCEPT ![p] = [Idle EXCEPT !.step = "cursor", !.op = "unset", !.key = k]]
    /\ UNCHANGED <<docs, indices, nextId, connected, last, lastSaver, clean, rt>>

\* line 146: self.find({'key': key})
UnsetFind(p) ==
    /\ pc[p].step = "cursor"
    /\ pc' = [pc EXCEPT ![p].step = "remove",
                        ![p].matches = IdsOf(Matching(docs, pc[p].key))]
    /\ UNCHANGED <<docs, indices, nextId, connected, last, lastSaver, clean, rt>>

\* line 147: self.remove(setting), for the next document of the cursor
UnsetRemove(p) ==
    /\ pc[p].step = "remove"
    /\ pc[p].matches # {}
    /\ LET i == MinId(pc[p].matches)
       IN  /\ docs' = {d \in docs : d.id # i}
           /\ pc' = [pc EXCEPT ![p].matches = pc[p].matches \ {i}]
           /\ clean' = IF i \in IdsOf(docs) THEN [q \in Procs |-> FALSE] ELSE clean
    /\ UNCHANGED <<indices, nextId, connected, last, lastSaver, rt>>

UnsetDone(p) ==
    /\ pc[p].step = "remove"
    /\ pc[p].matches = {}
    /\ pc' = [pc EXCEPT ![p] = [Idle EXCEPT !.step = "done", !.op = "unset"]]
    /\ UNCHANGED <<docs, indices, nextId, connected, last, lastSaver, clean, rt>>

ConcNext ==
    \/ ConcReconnect
    \/ \E p \in Procs, k \in ConcKeys, v \in ConcValues : CallSet(p, k, v)
    \/ \E p \in Procs : SetFind(p)
    \/ \E p \in Procs : SetValidate(p)
    \/ \E p \in Procs : SetSave(p)
    \/ \E p \in Procs, k \in ConcKeys : CallUnset(p, k)
    \/ \E p \in Procs : UnsetFind(p)
    \/ \E p \in Procs : UnsetRemove(p)
    \/ \E p \in Procs : UnsetDone(p)

SpecConc == ConcInit /\ [][ConcNext]_vars

-----------------------------------------------------------------------------
(* Round trips through the validators: against an empty store, set(k, v)   *)
(* for every key and every input value, then get(k), then set(k, get(k)).  *)

InputChars == {"g", "G", ",", " ", "/", "3"}

\* every string of at most MaxLen of these characters
ShortStrings == UNION {[1..n -> InputChars] : n \in 0..MaxLen}

SourceWords ==
    {S_never, S_noadmin, S_nomod, S_yesadmin, S_yesmod, S_open, S_closed,
     S_approve, S_required, S_optional, S_disabled, S_none, S_starttls, S_ssl,
     S_public_private, S_sentinel}

OtherWords ==
    {<<"0">>, <<"-", "3">>, <<"+", "3">>, <<"3", "6", "0", "0">>,
     <<"b", "o", "g", "u", "s">>,
     <<"g", "e", "t", ",", " ", "G", "E", "T", ",", " ", "p", "o", "s", "t">>}

InputStrings == ShortStrings \cup SourceWords \cup {Upper(w) : w \in SourceWords} \cup OtherWords

PluginNames == Plugins \cup {"z"}
InputLists == UNION {[1..n -> PluginNames] : n \in 0..2}

EntityIds == {"s1", "o1", "s9"}
InputIdLists == UNION {[1..n -> EntityIds] : n \in 0..1}
InputDicts ==
    {DictV(ks, o, g, u) :
        ks \in SUBSET {"open", "groups", "users"}, o \in BOOLEAN,
        g \in InputIdLists, u \in InputIdLists}

\* a dict as Python holds it: a key that is absent has no value
WellFormedDict(d) ==
    /\ "open" \notin d.keys => d.open = FALSE
    /\ "groups" \notin d.keys => d.groups = <<>>
    /\ "users" \notin d.keys => d.users = <<>>

InputValues ==
    {Null, BoolV(TRUE), BoolV(FALSE), IntV(0 - 1), IntV(0), IntV(1), IntV(3600)}
    \cup {StrV(s) : s \in InputStrings}
    \cup {ListV(l) : l \in InputLists}
    \cup {d \in InputDicts : WellFormedDict(d)}

NoOutcome == [exc |-> "none", field |-> "none", value |-> Null]
Outcome(r) == [exc |-> r.exc, field |-> r.field, value |-> r.value]

RtInit ==
    /\ docs = {}
    /\ indices = {IdIndex, CreatedKeyIndex}
    /\ nextId = 1
    /\ connected = TRUE
    /\ last = NoOp
    /\ pc = IdleClients
    /\ lastSaver = 0
    /\ clean = IdleClients
    /\ rt \in {[phase |-> "input", key |-> k, input |-> v, first |-> NoOutcome,
                got |-> Null, second |-> NoOutcome] :
                  k \in RegisteredKeys \cup {UnknownKey}, v \in InputValues}

RtSet ==
    /\ rt.phase = "input"
    /\ LET r == set(docs, indices, nextId, rt.key, rt.input)
       IN  /\ docs' = r.docs
           /\ nextId' = r.nextId
           /\ rt' = [rt EXCEPT !.phase = "set", !.first = Outcome(r)]
    /\ UNCHANGED <<indices, connected, last, pc, lastSaver, clean>>

RtGet ==
    /\ rt.phase = "set"
    /\ rt.first.exc = "none"
    /\ rt' = [rt EXCEPT !.phase = "got",
                        !.got = get(docs, rt.key, StrV(S_sentinel), TRUE, NoRequest)]
    /\ UNCHANGED <<docs, indices, nextId, connected, last, pc, lastSaver, clean>>

RtSetAgain ==
    /\ rt.phase = "got"
    /\ LET r == set(docs, indices, nextId, rt.key, rt.got)
       IN  /\ docs' = r.docs
           /\ nextId' = r.nextId
           /\ rt' = [rt EXCEPT !.phase = "again", !.second = Outcome(r)]
    /\ UNCHANGED <<indices, connected, last, pc, lastSaver, clean>>

RtNext == RtSet \/ RtGet \/ RtSetAgain

SpecValidate == RtInit /\ [][RtNext]_vars

-----------------------------------------------------------------------------
(* The claims.                                                             *)

\* C1: once reconnect has completed, no reachable state of the concurrent
\* callers (set and unset steps interleaved in any order) holds two stored
\* documents with the same key.
C1_NoTwoDocumentsPerKey == connected => ~HasDuplicates(docs)

\* two set calls that both saw the key empty have both completed: one
\* inserted, the other was refused by the unique index
C1_Witness ==
    \E p, q \in Procs :
        /\ p # q
        /\ pc[p].step = "done" /\ pc[p].op = "set" /\ ~pc[p].found /\ pc[p].exc = "none"
        /\ pc[q].step = "done" /\ pc[q].op = "set" /\ ~pc[q].found
        /\ pc[q].key = pc[p].key
        /\ pc[q].raced
        /\ pc[q].exc = "DuplicateKeyError"
        /\ Cardinality(Matching(docs, pc[p].key)) = 1

\* C2: reconnect on a collection without a unique index on key leaves, for
\* each key that was present, exactly one document, the one with the smallest
\* id among those that shared the key, unchanged; and a unique index on key.
C2_RepairKeepsLowestId ==
    [][~KeyIsUnique(indices) =>
        /\ KeyIsUnique(indices')
        /\ connected'
        /\ KeysOf(docs') = KeysOf(docs)
        /\ \A k \in KeysOf(docs) :
              Matching(docs', k) =
                  {d \in Matching(docs, k) : d.id = MinId(IdsOf(Matching(docs, k)))}
        /\ \A k \in KeysOf(docs) : Cardinality(Matching(docs', k)) = 1]_vars

\* reconnect has removed two of three documents that shared a key, kept the
\* one with id 1 and created the unique index
C2_Witness ==
    /\ last.op = "reconnect"
    /\ last.removed > 1
    /\ connected
    /\ KeyIsUnique(indices)
    /\ IdsOf(docs) = {1}

\* C3: a set call that fails validation leaves the collection as it was, and
\* set on a key without a registered validator always fails with a
\* ValidationException on field key.
C3_FailedSetLeavesStore ==
    [][last'.op = "set" =>
        /\ last'.exc # "none" => docs' = docs /\ nextId' = nextId
        /\ ~getValidator(last'.key) =>
              last'.exc = "ValidationException" /\ last'.field = "key"]_vars

\* a set on a key that has a document was refused by the validator, and a
\* document for that key is still stored
C3_Witness ==
    /\ last.op = "set"
    /\ last.exc = "ValidationException"
    /\ last.field = "value"
    /\ last.stored
    /\ Matching(docs, last.key) # {}

\* C4: an accepted set(k, v) returns and stores the validator's normalized
\* form of v, and a get(k) that directly follows it returns that value.
C4_GetAfterSet ==
    /\ last.op = "set" /\ last.exc = "none" =>
          /\ last.result = RunValidator(last.key, last.arg).value
          /\ \E d \in docs : d.key = last.key /\ d.value = last.result
    /\ last.op = "get" /\ last.follows = "set" => last.result = last.written

\* a get directly after a set that replaced a stored value returns the
\* normalized string, which is none of the values handed to set
C4_Witness ==
    /\ last.op = "get"
    /\ last.follows = "set"
    /\ last.key = "CORS_ALLOW_METHODS"
    /\ last.result = StrV(<<"G">>)
    /\ last.result \notin StoreValues

\* C5: unset(k) directly followed by get(k, default=D) returns D, for every
\* default D the caller supplies.
C5_UnsetThenGetReturnsDefault ==
    last.op = "get" /\ last.follows = "unset" /\ last.supplied =>
        last.result = last.arg

C7_RejectionsNameValue ==
    rt.phase # "input" /\ rt.first.exc # "none" =>
        /\ rt.first.exc = "ValidationException"
        /\ rt.first.field = IF getValidator(rt.key) THEN "value" ELSE "key"

\* C8: cookie lifetime and SMTP port accept exactly the values that parse as
\* an integer > 0 (upload minimum chunk size: >= 0) and store that integer;
\* every other value fails with a ValidationException on field value.
C8_NumericSettings ==
    /\ rt.phase # "input"
    /\ rt.key \in {"COOKIE_LIFETIME", "SMTP_PORT", "UPLOAD_MINIMUM_CHUNK_SIZE"}
    => LET r == PyInt(rt.input)
           least == IF rt.key = "UPLOAD_MINIMUM_CHUNK_SIZE" THEN 0 ELSE 1
       IN  IF r.exc = "none" /\ r.n >= least
           THEN rt.first.exc = "none" /\ rt.first.value = IntV(r.n)
           ELSE rt.first.exc = "ValidationException" /\ rt.first.field = "value"

\* C9: two concurrent set calls with valid values on a key that has a stored
\* document both complete without error, leave exactly one document for the
\* key, and its value is the normalized value of the call that saved last.
C9_LastWriteWins ==
    \A p, q \in Procs :
        /\ p # q
        /\ pc[p].step = "done" /\ pc[p].op = "set" /\ pc[p].found /\ clean[p]
        /\ pc[q].step = "done" /\ pc[q].op = "set" /\ pc[q].found /\ clean[q]
        /\ pc[q].key = pc[p].key
        /\ pc[p].exc \in {"none", "DuplicateKeyError"}
        /\ pc[q].exc \in {"none", "DuplicateKeyError"}
        => /\ pc[p].exc = "none"
           /\ pc[q].exc = "none"
           /\ Cardinality(Matching(docs, pc[p].key)) = 1
           /\ lastSaver = p =>
                 \A d \in Matching(docs, pc[p].key) : d.value = pc[p].value

\* both calls found the document, the second found it while the first was
\* between its find and its save, and the first call's update is lost
C9_Witness ==
    \E p, q \in Procs :
        /\ p # q
        /\ pc[p].step = "done" /\ pc[p].op = "set" /\ pc[p].found /\ clean[p]
        /\ pc[q].step = "done" /\ pc[q].op = "set" /\ pc[q].found /\ clean[q]
        /\ pc[q].key = pc[p].key
        /\ pc[p].exc = "none" /\ pc[q].exc = "none"
        /\ pc[q].raced
        /\ pc[p].value # pc[q].value
        /\ lastSaver = p
        /\ \A d \in Matching(docs, pc[p].key) : d.value = pc[p].value

\* C10: for every built-in key k and every value v that set(k, v) accepts, a
\* following set(k, get(k)) is accepted and leaves the stored value unchanged.
C10_NormalizationIdempotent ==
    rt.phase = "again" =>
        /\ rt.second.exc = "none"
        /\ rt.second.value = rt.got
        /\ \A d \in docs : d.value = rt.got

=============================================================================
